---- MODULE Spec2Model ----
(***************************************************************************)
(* Model of the kreeda input latches and application handler.             *)
(*                                                                         *)
(*   src/src/input/key_listener.rs    KeyInput   (the Key Latch)           *)
(*   src/src/input/mouse_listener.rs  MouseInput (the Pointer Latch)       *)
(*   src/src/engine/window.rs         App, GpuState                        *)
(*                                                                         *)
(* Specifications: KeySpec and MouseSpec drive one latch each; FrameSpec   *)
(* and SurfaceSpec drive App with input events and with surface events;    *)
(* LockSpec interleaves the event loop with threads calling the getters.   *)
(*                                                                         *)
(* A window event is a record with a "type" field.  Every event is offered *)
(* to both latches, as App::window_event does; each latch consumes the     *)
(* events it matches on and ignores the rest.                              *)
(*                                                                         *)
(* Positions and scroll deltas are f64 in the source.  The model draws     *)
(* them from small integer ranges; the latches only copy and subtract      *)
(* them, which is exact on these values.                                   *)
(***************************************************************************)
EXTENDS Integers, FiniteSets, Sequences, TLC

\* ---------------------------------------------------------------- bounds
\* Number of distinct logical keys the environment can send.
NumKeys == 2
\* Cursor coordinates range over 0..MaxCoord.
MaxCoord == 1
\* Wheel deltas range over -MaxScroll..MaxScroll.
MaxScroll == 1

Keys == 1..NumKeys
Coords == 0..MaxCoord
ScrollVals == (0 - MaxScroll)..MaxScroll
\* Horizontal wheel deltas: the handler binds only the vertical component,
\* so an absent and a present horizontal delta stand for all of them.
HScrollVals == {0, MaxScroll}

\* winit ElementState
ElementStates == {"Pressed", "Released"}
\* winit MouseButton: the three mapped buttons and one representative of
\* the others (Back, Forward, Other(n)).
MouseButtons == {"Left", "Right", "Middle", "Back"}
\* winit MouseScrollDelta variants
DeltaKinds == {"LineDelta", "PixelDelta"}

KeyboardEvents ==
    [type : {"KeyboardInput"}, state : ElementStates, logical_key : Keys]
CursorEvents ==
    [type : {"CursorMoved"}, x : Coords, y : Coords]
ButtonEvents ==
    [type : {"MouseInput"}, state : ElementStates, button : MouseButtons]
WheelEvents ==
    [type : {"MouseWheel"}, kind : DeltaKinds, h : HScrollVals,
     v : ScrollVals]
PointerEvents == CursorEvents \cup ButtonEvents \cup WheelEvents

\* Window dimensions (PhysicalSize<u32> components) range over 0..MaxDim.
MaxDim == 2
\* Number of threads other than the event loop that call latch getters.
NumQueryThreads == 2
Dims == 0..MaxDim
Sizes == [width : Dims, height : Dims]

\* wgpu SurfaceError variants, and "Ok" for a successful render
RecoverableErrors == {"Lost", "Outdated"}
RenderResults == {"Ok", "OutOfMemory", "Timeout"} \cup RecoverableErrors

\* Window events the handler dispatches on (window.rs:113-151).  A
\* CloseRequested carries the window it is addressed to; an event that
\* makes the handler call window.inner_size() carries the size that call
\* returns.
CloseEvents == [type : {"CloseRequested"}, window : {"own", "other"}]
ResizedEvents == [type : {"Resized"}, size : Sizes]
ScaleEvents == [type : {"ScaleFactorChanged"}, inner : Sizes]
RedrawEvents ==
    [type : {"RedrawRequested"}, result : RenderResults \ RecoverableErrors]
      \cup [type : {"RedrawRequested"}, result : RecoverableErrors,
             inner : Sizes]
SurfaceEvents == CloseEvents \cup ResizedEvents \cup ScaleEvents
                    \cup RedrawEvents

\* Events of the frame specification: input for one key, the cursor on
\* two positions of one row and one wheel delta, with the renders and the
\* close requests of the window.
FrameInputEvents ==
    {ev \in KeyboardEvents : ev.logical_key = 1}
      \cup {ev \in CursorEvents : ev.x <= 1 /\ ev.y = 0}
      \cup {ev \in WheelEvents :
                ev.kind = "LineDelta" /\ ev.h = 0 /\ ev.v = 1}
FrameEvents ==
    FrameInputEvents \cup CloseEvents
      \cup {ev \in RedrawEvents : ev.result \notin RecoverableErrors}

\* Threads: the event loop and the threads that query the latches.  Free
\* is the owner of a mutex nobody holds.
Free == 0 - 1
LoopThread == 0
QueryThreads == 1..NumQueryThreads
Threads == {LoopThread} \cup QueryThreads

\* Markers stored in last_op for the steps that are not window events.
NoOp == [type |-> "None"]
KeyEndFrameOp == [type |-> "KeyEndFrame"]
MouseEndFrameOp == [type |-> "MouseEndFrame"]
ResumedOp == [type |-> "Resumed"]
AboutToWaitOp == [type |-> "AboutToWait"]

VARIABLES
    \* KeyInput fields
    keys_pressed, keys_just_pressed, keys_just_released,
    \* MouseInput fields
    scroll_x, scroll_y, x_pos, y_pos, last_x, last_y,
    mouse_button_pressed, is_dragging,
    \* the operation performed by the most recent step
    last_op,
    \* history of the key latch within the current frame
    frame_presses, frame_releases, held_at_frame_start,
    \* history of the pointer latch
    moved_since_end_frame, motion_since_release, hold_motion_seen,
    \* wheel events of the current frame: <<>> when there was none, else
    \* <<[v, prior_nonzero]>> with the vertical delta of the latest one and
    \* whether an earlier one of the frame had a non-zero vertical delta
    frame_wheel,
    \* App::state, Option<GpuState>: <<>> for None, <<g>> for Some(g)
    state,
    \* the window has a redraw request that was not delivered yet
    redraw_requested,
    \* event_loop.exit() was called
    exiting,
    \* the most recent step called event_loop.exit()
    exit_called,
    \* the configuration the surface was configured with last, <<>> before
    surface_config,
    \* the most recent step called surface.configure
    configure_called,
    \* the size of the most recent resize with both dimensions > 0
    last_good_resize,
    \* the edge state the latest idle hook found and whether that hook
    \* directly followed another one, kept until the next render
    idle_edges,
    \* the thread that holds the KeyInput mutex / the MouseInput mutex
    key_lock, mouse_lock,
    \* where the event-loop thread is inside the handler it is running
    loop_pc,
    \* what each querying thread is doing
    query_pc

key_vars == <<keys_pressed, keys_just_pressed, keys_just_released>>
key_hist == <<frame_presses, frame_releases, held_at_frame_start>>
mouse_vars == <<scroll_x, scroll_y, x_pos, y_pos, last_x, last_y,
                mouse_button_pressed, is_dragging>>
mouse_hist == <<moved_since_end_frame, motion_since_release, hold_motion_seen,
                frame_wheel>>
app_vars == <<state, redraw_requested, exiting, surface_config>>
app_hist == <<configure_called, exit_called, last_good_resize, idle_edges>>
lock_vars == <<key_lock, mouse_lock, loop_pc, query_pc>>
vars == <<key_vars, mouse_vars, last_op, key_hist, mouse_hist,
          app_vars, app_hist, lock_vars>>

\* ------------------------------------------------------------ Key Latch

\* key_listener.rs:33-35  insert into keys_just_pressed unless already held
JustPressedOnPress_NoGuard(pressed, just_pressed, k) ==
    just_pressed \cup {k}
JustPressedOnPress(pressed, just_pressed, k) ==
    IF k \notin pressed THEN just_pressed \cup {k} ELSE just_pressed

\* key_listener.rs:36  keys_pressed.insert
PressedOnPress_Skip(pressed, k) ==
    pressed
PressedOnPress(pressed, k) ==
    pressed \cup {k}

\* key_listener.rs:39  keys_pressed.remove
PressedOnRelease_Keep(pressed, k) ==
    pressed
PressedOnRelease(pressed, k) ==
    pressed \ {k}

\* key_listener.rs:40  keys_just_released.insert
JustReleasedOnRelease(just_released, k) ==
    just_released \cup {k}

\* key_listener.rs:48  keys_just_pressed.clear()
JustPressedOnEndFrame_Keep(just_pressed) ==
    just_pressed
JustPressedOnEndFrame(just_pressed) ==
    {}

\* key_listener.rs:49  keys_just_released.clear()
JustReleasedOnEndFrame_Keep(just_released) ==
    just_released
JustReleasedOnEndFrame(just_released) ==
    {}

\* key_listener.rs:46-50  end_frame never writes keys_pressed
PressedOnEndFrame_Clear(pressed) ==
    {}
PressedOnEndFrame(pressed) ==
    pressed

\* KeyInput::handle_event
KeyHandleEvent(ev) ==
    IF ev.type = "KeyboardInput"
    THEN IF ev.state = "Pressed"
         THEN /\ keys_just_pressed' =
                    JustPressedOnPress(keys_pressed, keys_just_pressed,
                                       ev.logical_key)
              /\ keys_pressed' = PressedOnPress(keys_pressed, ev.logical_key)
              /\ UNCHANGED keys_just_released
              /\ frame_presses' = frame_presses \cup {ev.logical_key}
              /\ UNCHANGED <<frame_releases, held_at_frame_start>>
         ELSE /\ keys_pressed' = PressedOnRelease(keys_pressed, ev.logical_key)
              /\ keys_just_released' =
                    JustReleasedOnRelease(keys_just_released, ev.logical_key)
              /\ UNCHANGED keys_just_pressed
              /\ frame_releases' = frame_releases \cup {ev.logical_key}
              /\ UNCHANGED <<frame_presses, held_at_frame_start>>
    ELSE UNCHANGED <<key_vars, key_hist>>

\* KeyInput::end_frame
KeyEndFrameBody ==
    /\ keys_just_pressed' = JustPressedOnEndFrame(keys_just_pressed)
    /\ keys_just_released' = JustReleasedOnEndFrame(keys_just_released)
    /\ keys_pressed' = PressedOnEndFrame(keys_pressed)
    /\ frame_presses' = {}
    /\ frame_releases' = {}
    /\ held_at_frame_start' = keys_pressed'

\* KeyInput::key_down / key_just_pressed / key_just_released
key_down(k) == k \in keys_pressed
key_just_pressed(k) == k \in keys_just_pressed
key_just_released(k) == k \in keys_just_released

\* -------------------------------------------------------- Pointer Latch

ButtonSlots == 0..2

\* mouse_listener.rs:49-54  button -> slot index, -1 for "_ => return"
ButtonIndex_OtherIsMiddle(button) ==
    CASE button = "Left" -> 0
      [] button = "Right" -> 1
      [] OTHER -> 2
ButtonIndex(button) ==
    CASE button = "Left" -> 0
      [] button = "Right" -> 1
      [] button = "Middle" -> 2
      [] OTHER -> 0 - 1

\* mouse_listener.rs:44  mouse_button_pressed.iter().any(|&b| b)
AnyButton(slots) == \E i \in ButtonSlots : slots[i]

\* mouse_listener.rs:59  is_dragging after a release of a mapped button
DraggingOnRelease_Keep(dragging, slots) ==
    dragging
DraggingOnRelease_Recompute(dragging, slots) ==
    dragging /\ AnyButton(slots)
DraggingOnRelease(dragging, slots) ==
    FALSE

\* mouse_listener.rs:82-83  last_x / last_y after end_frame
LastOnEndFrame_StoreDelta(last, pos) ==
    last - pos
LastOnEndFrame_Keep(last, pos) ==
    last
LastOnEndFrame(last, pos) ==
    pos

\* mouse_listener.rs:81  scroll_y after end_frame
ScrollYOnEndFrame_Keep(scroll) ==
    scroll
ScrollYOnEndFrame(scroll) ==
    0

\* mouse_listener.rs:78-84  end_frame never writes is_dragging
DraggingOnEndFrame_Clear(dragging) ==
    FALSE
DraggingOnEndFrame(dragging) ==
    dragging

\* mouse_listener.rs:66-71  scroll_y after a wheel event with vertical
\* delta v (LineDelta and PixelDelta alike; f64::from is exact)
ScrollYOnWheel_Accumulate(scroll, v) ==
    scroll + v
ScrollYOnWheel(scroll, v) ==
    v

\* mouse_listener.rs:66-71  scroll_x after a wheel event with horizontal
\* delta h: both arms bind only y, scroll_x is not written
ScrollXOnWheel(scroll, h) ==
    scroll

\* MouseInput::handle_event
MouseHandleEvent(ev) ==
    CASE ev.type = "CursorMoved" ->
            /\ last_x' = x_pos
            /\ last_y' = y_pos
            /\ x_pos' = ev.x
            /\ y_pos' = ev.y
            /\ is_dragging' = AnyButton(mouse_button_pressed)
            /\ UNCHANGED <<scroll_x, scroll_y, mouse_button_pressed>>
            /\ moved_since_end_frame' = TRUE
            /\ motion_since_release' =
                  IF AnyButton(mouse_button_pressed)
                  THEN TRUE ELSE motion_since_release
            /\ hold_motion_seen' =
                  IF AnyButton(mouse_button_pressed)
                  THEN TRUE ELSE hold_motion_seen
            /\ UNCHANGED frame_wheel
      [] ev.type = "MouseInput" ->
            IF ButtonIndex(ev.button) < 0
            THEN UNCHANGED <<mouse_vars, mouse_hist>>
            ELSE IF ev.state = "Pressed"
                 THEN /\ mouse_button_pressed' =
                            [mouse_button_pressed
                                EXCEPT ![ButtonIndex(ev.button)] = TRUE]
                      /\ UNCHANGED <<scroll_x, scroll_y, x_pos, y_pos,
                                     last_x, last_y, is_dragging>>
                      /\ UNCHANGED mouse_hist
                 ELSE /\ mouse_button_pressed' =
                            [mouse_button_pressed
                                EXCEPT ![ButtonIndex(ev.button)] = FALSE]
                      /\ is_dragging' =
                            DraggingOnRelease(is_dragging,
                                              mouse_button_pressed')
                      /\ UNCHANGED <<scroll_x, scroll_y, x_pos, y_pos,
                                     last_x, last_y>>
                      /\ motion_since_release' = FALSE
                      /\ hold_motion_seen' =
                            (hold_motion_seen
                               /\ AnyButton(mouse_button_pressed'))
                      /\ UNCHANGED <<moved_since_end_frame, frame_wheel>>
      [] ev.type = "MouseWheel" ->
            /\ scroll_y' = ScrollYOnWheel(scroll_y, ev.v)
            /\ scroll_x' = ScrollXOnWheel(scroll_x, ev.h)
            /\ UNCHANGED <<x_pos, y_pos, last_x, last_y,
                           mouse_button_pressed, is_dragging>>
            /\ frame_wheel' =
                  <<[v |-> ev.v,
                     prior_nonzero |->
                        (frame_wheel # <<>>
                           /\ (frame_wheel[1].prior_nonzero
                                 \/ frame_wheel[1].v # 0))]>>
            /\ UNCHANGED <<moved_since_end_frame, motion_since_release,
                           hold_motion_seen>>
      [] OTHER -> UNCHANGED <<mouse_vars, mouse_hist>>

\* MouseInput::end_frame
MouseEndFrameBody ==
    /\ scroll_x' = 0
    /\ scroll_y' = ScrollYOnEndFrame(scroll_y)
    /\ last_x' = LastOnEndFrame(last_x, x_pos)
    /\ last_y' = LastOnEndFrame(last_y, y_pos)
    /\ is_dragging' = DraggingOnEndFrame(is_dragging)
    /\ UNCHANGED <<x_pos, y_pos, mouse_button_pressed>>
    /\ moved_since_end_frame' = FALSE
    /\ frame_wheel' = <<>>
    /\ UNCHANGED <<motion_since_release, hold_motion_seen>>

\* MouseInput getters
get_x == x_pos
get_y == y_pos
get_dx == last_x - x_pos
get_dy == last_y - y_pos
get_scroll_y == scroll_y
mouse_button_down(button) ==
    IF button \in ButtonSlots THEN mouse_button_pressed[button] ELSE FALSE

\* ------------------------------------------------------------- actions

\* KeyInput::new and MouseInput::new
Init ==
    /\ keys_pressed = {}
    /\ keys_just_pressed = {}
    /\ keys_just_released = {}
    /\ scroll_x = 0
    /\ scroll_y = 0
    /\ x_pos = 0
    /\ y_pos = 0
    /\ last_x = 0
    /\ last_y = 0
    /\ mouse_button_pressed = [i \in ButtonSlots |-> FALSE]
    /\ is_dragging = FALSE
    /\ last_op = NoOp
    /\ frame_presses = {}
    /\ frame_releases = {}
    /\ held_at_frame_start = {}
    /\ moved_since_end_frame = FALSE
    /\ motion_since_release = FALSE
    /\ hold_motion_seen = FALSE
    /\ frame_wheel = <<>>
    /\ state = <<>>
    /\ redraw_requested = FALSE
    /\ exiting = FALSE
    /\ exit_called = FALSE
    /\ surface_config = <<>>
    /\ configure_called = FALSE
    /\ last_good_resize = <<>>
    /\ idle_edges = <<>>
    /\ key_lock = Free
    /\ mouse_lock = Free
    /\ loop_pc = "idle"
    /\ query_pc = [q \in QueryThreads |-> "idle"]

\* One window event offered to both latches (window.rs:110-111).
HandleEvent(ev) ==
    /\ MouseHandleEvent(ev)
    /\ KeyHandleEvent(ev)
    /\ last_op' = ev

KeyEvent ==
    /\ \E ev \in KeyboardEvents : HandleEvent(ev)
    /\ UNCHANGED <<app_vars, app_hist, lock_vars>>

PointerEvent ==
    /\ \E ev \in PointerEvents : HandleEvent(ev)
    /\ UNCHANGED <<app_vars, app_hist, lock_vars>>

KeyEndFrame ==
    /\ KeyEndFrameBody
    /\ last_op' = KeyEndFrameOp
    /\ UNCHANGED <<mouse_vars, mouse_hist, app_vars, app_hist, lock_vars>>

MouseEndFrame ==
    /\ MouseEndFrameBody
    /\ last_op' = MouseEndFrameOp
    /\ UNCHANGED <<key_vars, key_hist, app_vars, app_hist, lock_vars>>

\* ---------------------------------------------------------- GPU Surface

Max(a, b) == IF a >= b THEN a ELSE b

\* window.rs:225-226  config.width / config.height at construction
InitialConfigDim_Unclamped(d) ==
    d
InitialConfigDim(d) ==
    Max(d, 1)

\* GpuState::new_from_window (window.rs:213-249): the size field and the
\* swapchain configuration built from the window's inner size
NewFromWindow(inner) ==
    [size |-> inner,
     config |-> [width |-> InitialConfigDim(inner.width),
                 height |-> InitialConfigDim(inner.height),
                 present_mode |-> "Fifo",
                 desired_maximum_frame_latency |-> 1]]

\* window.rs:253  the guard of GpuState::resize
ResizeApplies(new_size) ==
    new_size.width > 0 /\ new_size.height > 0

\* GpuState::resize (window.rs:252-259), as a function of the state
Resize_StaleSize(g, new_size) ==
    IF ResizeApplies(new_size)
    THEN [g EXCEPT !.size = new_size,
                   !.config.width = g.size.width,
                   !.config.height = g.size.height]
    ELSE g
Resize(g, new_size) ==
    IF ResizeApplies(new_size)
    THEN [g EXCEPT !.size = new_size,
                   !.config.width = new_size.width,
                   !.config.height = new_size.height]
    ELSE g

\* window.rs:132-146  which render errors make the handler call exit()
ExitOnRenderResult_TimeoutToo(result) ==
    result \in {"OutOfMemory", "Timeout"}
ExitOnRenderResult(result) ==
    result = "OutOfMemory"

\* window.rs:105  the window an event is addressed to
EventWindow(ev) ==
    IF ev.type = "CloseRequested" THEN ev.window ELSE "own"

\* window.rs:117-137  the size the handler passes to GpuState::resize while
\* it handles ev, <<>> when it does not call resize
ResizeArg(ev) ==
    CASE ev.type = "Resized" -> <<ev.size>>
      [] ev.type = "ScaleFactorChanged" -> <<ev.inner>>
      [] ev.type = "RedrawRequested" /\ ev.result \in RecoverableErrors ->
            <<ev.inner>>
      [] OTHER -> <<>>

\* The handler's call state.resize(new_size), with the call of
\* surface.configure inside it (window.rs:257).
CallResize(new_size) ==
    /\ state' = <<Resize(state[1], new_size)>>
    /\ configure_called' = ResizeApplies(new_size)
    /\ surface_config' =
          IF ResizeApplies(new_size)
          THEN <<state'[1].config>> ELSE surface_config
    /\ last_good_resize' =
          IF ResizeApplies(new_size)
          THEN <<new_size>> ELSE last_good_resize

\* App::window_event after the latches saw the event: `match event`
\* (window.rs:113-151)
Dispatch(ev) ==
    CASE ev.type = "CloseRequested" ->
            /\ exiting' = TRUE
            /\ exit_called' = TRUE
            /\ configure_called' = FALSE
            /\ UNCHANGED <<state, redraw_requested, surface_config,
                           last_good_resize, idle_edges>>
      [] ev.type \in {"Resized", "ScaleFactorChanged"} ->
            /\ CallResize(ResizeArg(ev)[1])
            /\ redraw_requested' = TRUE
            /\ exit_called' = FALSE
            /\ UNCHANGED <<exiting, idle_edges>>
      [] ev.type = "RedrawRequested" ->
            /\ redraw_requested' = FALSE
            /\ idle_edges' = <<>>
            /\ IF ev.result \in RecoverableErrors
               THEN /\ CallResize(ResizeArg(ev)[1])
                    /\ exit_called' = FALSE
                    /\ UNCHANGED exiting
               ELSE /\ exiting' = (exiting \/ ExitOnRenderResult(ev.result))
                    /\ exit_called' = ExitOnRenderResult(ev.result)
                    /\ configure_called' = FALSE
                    /\ UNCHANGED <<state, surface_config, last_good_resize>>
      [] OTHER ->
            /\ configure_called' = FALSE
            /\ exit_called' = FALSE
            /\ UNCHANGED <<app_vars, last_good_resize, idle_edges>>

\* App::resumed (window.rs:78-94): a window is created and the surface
\* state is built from the inner size the new window reports.  The handler
\* does not look at self.state: every call creates a window and replaces
\* the surface state.
Resumed ==
    /\ loop_pc = "idle"
    /\ \E inner \in Sizes :
          /\ state' = <<NewFromWindow(inner)>>
          /\ surface_config' = <<state'[1].config>>
    /\ configure_called' = TRUE
    /\ exit_called' = FALSE
    /\ last_op' = ResumedOp
    /\ UNCHANGED <<redraw_requested, exiting, last_good_resize, idle_edges>>
    /\ UNCHANGED <<key_vars, key_hist, mouse_vars, mouse_hist, lock_vars>>

\* App::window_event (window.rs:96-152) for one event, called between two
\* other calls of the handler.  Window events exist only once the window
\* does; the handler has no check of its own for a loop that is exiting.
\* An event changes at most one of the two latches and the surface state,
\* so the call has no intermediate state that another thread could tell
\* from the states before and after it.
WindowEvent(ev) ==
    /\ loop_pc = "idle"
    /\ state # <<>>
    /\ last_op' = ev
    /\ UNCHANGED lock_vars
    /\ IF EventWindow(ev) # "own"
       THEN /\ configure_called' = FALSE
            /\ exit_called' = FALSE
            /\ UNCHANGED <<key_vars, key_hist, mouse_vars, mouse_hist,
                           app_vars, last_good_resize, idle_edges>>
       ELSE /\ MouseHandleEvent(ev)
            /\ KeyHandleEvent(ev)
            /\ Dispatch(ev)

\* App::about_to_wait (window.rs:154-162) runs on the event-loop thread in
\* three calls: window.request_redraw() when there is a surface state, then
\* mouse::end_frame(), then key::end_frame().  Each end_frame takes its
\* mutex, writes and drops the guard, so the states between the calls are
\* visible to the other threads.  The handler checks neither for a window
\* nor for a loop that is exiting: the two end_frame calls are made
\* whenever the loop calls the hook.

\* window.rs:155-157  the hook is entered and requests the redraw
LoopTakeIdleHook ==
    /\ loop_pc = "idle"
    /\ last_op' = AboutToWaitOp
    /\ redraw_requested' = (IF state # <<>> THEN TRUE ELSE redraw_requested)
    /\ idle_edges' = <<[just_pressed |-> keys_just_pressed,
                        just_released |-> keys_just_released,
                        scroll_y |-> scroll_y,
                        after_idle |-> (last_op = AboutToWaitOp)]>>
    /\ configure_called' = FALSE
    /\ exit_called' = FALSE
    /\ loop_pc' = "mouse_end_frame"
    /\ UNCHANGED <<key_vars, key_hist, mouse_vars, mouse_hist, state,
                   exiting, surface_config, last_good_resize,
                   key_lock, mouse_lock, query_pc>>

\* window.rs:160  mouse::end_frame(): lock, body, drop of the guard
LoopMouseEndFrameLock ==
    /\ loop_pc = "mouse_end_frame"
    /\ mouse_lock = Free
    /\ mouse_lock' = LoopThread
    /\ loop_pc' = "mouse_end_frame_locked"
    /\ UNCHANGED <<key_vars, key_hist, mouse_vars, mouse_hist, app_vars,
                   app_hist, last_op, key_lock, query_pc>>

LoopMouseEndFrameBody ==
    /\ loop_pc = "mouse_end_frame_locked"
    /\ MouseEndFrameBody
    /\ mouse_lock' = Free
    /\ loop_pc' = "key_end_frame"
    /\ UNCHANGED <<key_vars, key_hist, app_vars, app_hist, last_op,
                   key_lock, query_pc>>

\* window.rs:161  key::end_frame(): lock, body, drop of the guard
LoopKeyEndFrameLock ==
    /\ loop_pc = "key_end_frame"
    /\ key_lock = Free
    /\ key_lock' = LoopThread
    /\ loop_pc' = "key_end_frame_locked"
    /\ UNCHANGED <<key_vars, key_hist, mouse_vars, mouse_hist, app_vars,
                   app_hist, last_op, mouse_lock, query_pc>>

LoopKeyEndFrameBody ==
    /\ loop_pc = "key_end_frame_locked"
    /\ KeyEndFrameBody
    /\ key_lock' = Free
    /\ loop_pc' = "idle"
    /\ UNCHANGED <<mouse_vars, mouse_hist, app_vars, app_hist, last_op,
                   mouse_lock, query_pc>>

AboutToWait ==
    \/ LoopTakeIdleHook
    \/ LoopMouseEndFrameLock \/ LoopMouseEndFrameBody
    \/ LoopKeyEndFrameLock \/ LoopKeyEndFrameBody

FrameEvent == \E ev \in FrameEvents : WindowEvent(ev)

SurfaceEvent == \E ev \in SurfaceEvents : WindowEvent(ev)

FrameNext == Resumed \/ FrameEvent \/ AboutToWait
SurfaceNext == Resumed \/ SurfaceEvent \/ AboutToWait

\* The application handler driven by input events, renders and idle hooks.
FrameSpec == Init /\ [][FrameNext]_vars
\* The application handler driven by the events that reach the surface.
SurfaceSpec == Init /\ [][SurfaceNext]_vars

KeyNext == KeyEvent \/ KeyEndFrame
MouseNext == PointerEvent \/ MouseEndFrame

\* The Key Latch driven by keyboard events and its end_frame.
KeySpec == Init /\ [][KeyNext]_vars
\* The Pointer Latch driven by pointer events and its end_frame.
MouseSpec == Init /\ [][MouseNext]_vars

\* ------------------------------------------------------ lock discipline

\* Events of the lock specification: one that the Key Latch consumes, one
\* that the Pointer Latch consumes, one that resizes and one that renders.
LockEvents ==
    {ev \in KeyboardEvents : ev.logical_key = 1 /\ ev.state = "Pressed"}
      \cup {ev \in WheelEvents :
                ev.kind = "LineDelta" /\ ev.h = 0 /\ ev.v = 1}
      \cup {ev \in ResizedEvents : ev.size.width = 1 /\ ev.size.height = 1}
      \cup {ev \in RedrawEvents : ev.result = "Ok"}

\* mouse_listener.rs:37-75  the arms of MouseInput::handle_event that lock
MouseLocksFor(ev) ==
    ev.type \in {"CursorMoved", "MouseInput", "MouseWheel"}

\* key_listener.rs:28-29  KeyInput::handle_event locks for KeyboardInput
KeyLocksFor(ev) ==
    ev.type = "KeyboardInput"

\* mouse_listener.rs:75-76  the MutexGuard `l` is dropped when the match
\* arm ends, before handle_event returns
MouseGuardAfterHandleEvent_Kept(holder) ==
    holder
MouseGuardAfterHandleEvent(holder) ==
    Free

\* The resume of the lock specification: the window reports 1x1.
LockResumed ==
    /\ Resumed
    /\ state'[1].size = [width |-> 1, height |-> 1]

\* The event loop calls App::window_event with the next event.
LoopTakeEvent ==
    /\ loop_pc = "idle"
    /\ state # <<>>
    /\ \E ev \in LockEvents : last_op' = ev
    /\ loop_pc' = "mouse_handle_event"
    /\ UNCHANGED <<key_vars, key_hist, mouse_vars, mouse_hist, app_vars,
                   app_hist, key_lock, mouse_lock, query_pc>>

\* window.rs:110  mouse::handle_event(&event): lock() in the matching arm
LoopMouseLock ==
    /\ loop_pc = "mouse_handle_event"
    /\ IF MouseLocksFor(last_op)
       THEN /\ mouse_lock = Free
            /\ mouse_lock' = LoopThread
            /\ loop_pc' = "mouse_locked"
       ELSE /\ loop_pc' = "key_handle_event"
            /\ UNCHANGED mouse_lock
    /\ UNCHANGED <<key_vars, key_hist, mouse_vars, mouse_hist, app_vars,
                   app_hist, last_op, key_lock, query_pc>>

\* the locked arm of MouseInput::handle_event and the drop of its guard
LoopMouseBody ==
    /\ loop_pc = "mouse_locked"
    /\ MouseHandleEvent(last_op)
    /\ mouse_lock' = MouseGuardAfterHandleEvent(mouse_lock)
    /\ loop_pc' = "key_handle_event"
    /\ UNCHANGED <<key_vars, key_hist, app_vars, app_hist, last_op,
                   key_lock, query_pc>>

\* window.rs:111  key::handle_event(&event): lock() for a KeyboardInput
LoopKeyLock ==
    /\ loop_pc = "key_handle_event"
    /\ IF KeyLocksFor(last_op)
       THEN /\ key_lock = Free
            /\ key_lock' = LoopThread
            /\ loop_pc' = "key_locked"
       ELSE /\ loop_pc' = "dispatch"
            /\ UNCHANGED key_lock
    /\ UNCHANGED <<key_vars, key_hist, mouse_vars, mouse_hist, app_vars,
                   app_hist, last_op, mouse_lock, query_pc>>

\* the body of KeyInput::handle_event and the drop of its guard
LoopKeyBody ==
    /\ loop_pc = "key_locked"
    /\ KeyHandleEvent(last_op)
    /\ key_lock' = Free
    /\ loop_pc' = "dispatch"
    /\ UNCHANGED <<mouse_vars, mouse_hist, app_vars, app_hist, last_op,
                   mouse_lock, query_pc>>

\* window.rs:113-151  `match event`, with the calls of resize and render
LoopDispatch ==
    /\ loop_pc = "dispatch"
    /\ Dispatch(last_op)
    /\ loop_pc' = "idle"
    /\ UNCHANGED <<key_vars, key_hist, mouse_vars, mouse_hist, last_op,
                   key_lock, mouse_lock, query_pc>>

\* A thread calls a KeyInput getter (key_listener.rs:54-64) or a MouseInput
\* getter (mouse_listener.rs:88-121): it asks for the one mutex, reads under
\* the guard and drops the guard when the getter returns.
QueryCall(q) ==
    /\ query_pc[q] = "idle"
    /\ \E want \in {"want_key", "want_mouse"} :
          query_pc' = [query_pc EXCEPT ![q] = want]
    /\ UNCHANGED <<key_vars, key_hist, mouse_vars, mouse_hist, app_vars,
                   app_hist, last_op, key_lock, mouse_lock, loop_pc>>

QueryLock(q) ==
    /\ \/ /\ query_pc[q] = "want_key"
          /\ key_lock = Free
          /\ key_lock' = q
          /\ query_pc' = [query_pc EXCEPT ![q] = "reading_key"]
          /\ UNCHANGED mouse_lock
       \/ /\ query_pc[q] = "want_mouse"
          /\ mouse_lock = Free
          /\ mouse_lock' = q
          /\ query_pc' = [query_pc EXCEPT ![q] = "reading_mouse"]
          /\ UNCHANGED key_lock
    /\ UNCHANGED <<key_vars, key_hist, mouse_vars, mouse_hist, app_vars,
                   app_hist, last_op, loop_pc>>

QueryReturn(q) ==
    /\ \/ /\ query_pc[q] = "reading_key"
          /\ key_lock' = Free
          /\ UNCHANGED mouse_lock
       \/ /\ query_pc[q] = "reading_mouse"
          /\ mouse_lock' = Free
          /\ UNCHANGED key_lock
    /\ query_pc' = [query_pc EXCEPT ![q] = "idle"]
    /\ UNCHANGED <<key_vars, key_hist, mouse_vars, mouse_hist, app_vars,
                   app_hist, last_op, loop_pc>>

LoopStep ==
    \/ LoopTakeEvent
    \/ LoopMouseLock \/ LoopMouseBody \/ LoopKeyLock \/ LoopKeyBody
    \/ LoopDispatch
    \/ AboutToWait

QueryStep == \E q \in QueryThreads : QueryCall(q) \/ QueryLock(q) \/ QueryReturn(q)

LockNext == LockResumed \/ LoopStep \/ QueryStep

\* The event-loop thread interleaved with the querying threads, one mutex
\* operation per step.
LockSpec == Init /\ [][LockNext]_vars

\* The mutex a thread is blocked on, <<>> when it is not waiting.
WaitsFor(t) ==
    IF t = LoopThread
    THEN CASE loop_pc = "mouse_handle_event" /\ MouseLocksFor(last_op) ->
                 <<"mouse">>
           [] loop_pc = "mouse_end_frame" -> <<"mouse">>
           [] loop_pc = "key_handle_event" /\ KeyLocksFor(last_op) ->
                 <<"key">>
           [] loop_pc = "key_end_frame" -> <<"key">>
           [] OTHER -> <<>>
    ELSE CASE query_pc[t] = "want_key" -> <<"key">>
           [] query_pc[t] = "want_mouse" -> <<"mouse">>
           [] OTHER -> <<>>

Holds(t) == (IF key_lock = t THEN {"key"} ELSE {})
               \cup (IF mouse_lock = t THEN {"mouse"} ELSE {})

\* C18: no thread holds both latch mutexes, the event loop holds none while
\* it runs the dispatch with the surface calls, and a thread that holds a
\* latch mutex is never waiting for one, so that no wait can be circular.
C18_LockDiscipline ==
    /\ \A t \in Threads : Cardinality(Holds(t)) <= 1
    /\ loop_pc = "dispatch" => Holds(LoopThread) = {}
    /\ \A t \in Threads : Holds(t) # {} => WaitsFor(t) = <<>>

C18_Witness ==
    /\ loop_pc = "dispatch"
    /\ last_op.type = "Resized"
    /\ key_lock \in QueryThreads
    /\ mouse_lock \in QueryThreads
    /\ key_lock # mouse_lock
    /\ keys_pressed # {}
    /\ scroll_y # 0

\* ------------------------------------------------------ Key Latch claims

PressOf(k) == [type |-> "KeyboardInput", state |-> "Pressed", logical_key |-> k]
ReleaseOf(k) == [type |-> "KeyboardInput", state |-> "Released", logical_key |-> k]

\* C1: a press event for a key that is already in keys_pressed never adds
\* the key to keys_just_pressed and leaves it in keys_pressed; a key held
\* since the start of the frame and pressed again in the frame, with no
\* release in the frame (press, end_frame, press), is not in
\* keys_just_pressed and is in keys_pressed.
C1_RepeatSuppression ==
    /\ [][\A k \in Keys :
            (last_op' = PressOf(k) /\ key_down(k))
               => /\ key_just_pressed(k)' => key_just_pressed(k)
                  /\ key_down(k)']_vars
    /\ [](\A k \in Keys :
            (k \in held_at_frame_start /\ k \in frame_presses
                /\ k \notin frame_releases)
               => ~key_just_pressed(k) /\ key_down(k))

C1_Witness ==
    \E k \in Keys :
        /\ last_op = PressOf(k)
        /\ k \in held_at_frame_start
        /\ k \in frame_presses
        /\ k \notin frame_releases
        /\ ~key_just_pressed(k)
        /\ key_down(k)

\* C2 as stated: every key in keys_just_pressed is also in keys_pressed.
C2_JustPressedImpliesDown ==
    \A k \in Keys : key_just_pressed(k) => key_down(k)

\* C2 amended: every key in keys_just_pressed that is not also in
\* keys_just_released is in keys_pressed.
C2_JustPressedNotReleasedImpliesDown ==
    \A k \in Keys :
        (key_just_pressed(k) /\ ~key_just_released(k)) => key_down(k)

C2_Witness ==
    \E k, j \in Keys :
        /\ key_just_pressed(k) /\ ~key_just_released(k) /\ key_down(k)
        /\ key_just_pressed(j) /\ key_just_released(j) /\ ~key_down(j)

\* C3 as stated: no key is in both keys_just_pressed and keys_just_released.
C3_EdgesDisjoint ==
    \A k \in Keys : ~(key_just_pressed(k) /\ key_just_released(k))

\* C3 amended: a key is in both keys_just_pressed and keys_just_released
\* only if both a press event and a release event for it were ingested
\* since the last end_frame.
C3_EdgesOverlapOnlyWithinFrame ==
    \A k \in Keys :
        (key_just_pressed(k) /\ key_just_released(k))
           => (k \in frame_presses /\ k \in frame_releases)

C3_Witness ==
    \E k, j \in Keys :
        /\ key_just_pressed(k) /\ key_just_released(k)
        /\ j \in frame_presses /\ j \notin frame_releases
        /\ key_just_pressed(j) /\ ~key_just_released(j)

\* C4 as stated: no key is in both keys_just_released and keys_pressed.
C4_ReleasedNotDown ==
    \A k \in Keys : ~(key_just_released(k) /\ key_down(k))

\* C4 amended: a key in keys_just_released is in keys_pressed only if it
\* was pressed again after the release in the same frame, and then it is
\* in keys_just_pressed as well.
C4_ReleasedAndDownImpliesJustPressed ==
    \A k \in Keys :
        (key_just_released(k) /\ key_down(k))
           => (key_just_pressed(k) /\ k \in frame_presses)

C4_Witness ==
    \E k, j \in Keys :
        /\ key_just_released(k) /\ key_down(k) /\ key_just_pressed(k)
        /\ key_just_released(j) /\ ~key_down(j)

\* C5 as stated: a key is in keys_just_pressed only if a press event for
\* it arrived since the last end_frame and it was not in keys_pressed at
\* the start of the frame.
C5_JustPressedOnlyIfNotHeldAtStart ==
    \A k \in Keys :
        key_just_pressed(k)
           => (k \in frame_presses /\ k \notin held_at_frame_start)

\* C5 amended: a key is in keys_just_pressed only if a press event for it
\* arrived since the last end_frame and it was either not in keys_pressed
\* at the start of the frame or released earlier in the frame.
C5_JustPressedOnlyIfPressedWhileUp ==
    \A k \in Keys :
        key_just_pressed(k)
           => /\ k \in frame_presses
              /\ (k \notin held_at_frame_start \/ k \in frame_releases)

C5_Witness ==
    \E k, j \in Keys :
        /\ key_just_pressed(k) /\ k \in held_at_frame_start
        /\ k \in frame_releases
        /\ key_just_pressed(j) /\ j \notin held_at_frame_start
        /\ j \notin frame_releases

\* C6: KeyInput::end_frame leaves keys_just_pressed and keys_just_released
\* empty and keys_pressed exactly as it was before the call.
C6_KeyEndFrameEffect ==
    [][last_op' = KeyEndFrameOp
         => /\ keys_just_pressed' = {}
            /\ keys_just_released' = {}
            /\ keys_pressed' = keys_pressed]_vars

C6_Witness ==
    /\ last_op = KeyEndFrameOp
    /\ keys_pressed # {}
    /\ keys_pressed # Keys
    /\ keys_just_pressed = {}
    /\ keys_just_released = {}

\* -------------------------------------------------- Pointer Latch claims

\* C7: is_dragging implies that one of the three button slots is held.
C7_DraggingImpliesButtonHeld ==
    is_dragging => \E i \in ButtonSlots : mouse_button_down(i)

C7_Witness ==
    /\ is_dragging
    /\ mouse_button_down(1)
    /\ ~mouse_button_down(0)
    /\ last_op.type = "MouseInput"

\* C8 as stated: is_dragging is true iff a button is held and a
\* cursor-moved event has been seen while a button was held (counted from
\* the moment the first of the currently held buttons went down).
C8_DraggingIffHeldAndMotionSeen ==
    is_dragging <=> (AnyButton(mouse_button_pressed) /\ hold_motion_seen)

\* C8 amended: is_dragging is true iff a button is held and a cursor-moved
\* event has been seen while a button was held since the most recent
\* release of a left, right or middle button.
C8_DraggingIffMotionSinceRelease ==
    is_dragging <=> (AnyButton(mouse_button_pressed) /\ motion_since_release)

C8_Witness ==
    /\ last_op.type = "MouseInput"
    /\ last_op.state = "Released"
    /\ AnyButton(mouse_button_pressed)
    /\ hold_motion_seen
    /\ ~motion_since_release
    /\ ~is_dragging

\* C9: with no cursor-moved event since the previous end_frame, get_dx and
\* get_dy are zero whatever button or wheel events were ingested; right
\* after a cursor-moved event they are the position before the event minus
\* the new position.
C9_DeltaZeroWithoutMotion ==
    /\ [](~moved_since_end_frame => (get_dx = 0 /\ get_dy = 0))
    /\ [][last_op'.type = "CursorMoved"
            => /\ get_dx' = x_pos - x_pos'
               /\ get_dy' = y_pos - y_pos']_vars

C9_Witness ==
    /\ ~moved_since_end_frame
    /\ last_op.type \in {"MouseInput", "MouseWheel"}
    /\ x_pos # 0
    /\ y_pos # 0
    /\ scroll_y # 0
    /\ AnyButton(mouse_button_pressed)
    /\ get_dx = 0
    /\ get_dy = 0

\* C10: MouseInput::end_frame leaves scroll_x and scroll_y zero and does
\* not change x, y, the button slots or is_dragging.
C10_MouseEndFrameEffect ==
    [][last_op' = MouseEndFrameOp
         => /\ scroll_x' = 0
            /\ scroll_y' = 0
            /\ x_pos' = x_pos
            /\ y_pos' = y_pos
            /\ mouse_button_pressed' = mouse_button_pressed
            /\ is_dragging' = is_dragging]_vars

C10_Witness ==
    /\ last_op = MouseEndFrameOp
    /\ is_dragging
    /\ AnyButton(mouse_button_pressed)
    /\ x_pos # 0
    /\ scroll_x = 0
    /\ scroll_y = 0

\* C11 as stated: after a wheel event with components (h, v) the latch
\* holds v in scroll_y and h in scroll_x.
C11_WheelStoresBothComponents ==
    last_op.type = "MouseWheel"
       => (scroll_y = last_op.v /\ scroll_x = last_op.h)

\* C19: a mouse-button event for a button other than left, right or
\* middle leaves every field of the Pointer Latch unchanged.
C19_UnmappedButtonIgnored ==
    [][(last_op'.type = "MouseInput"
          /\ last_op'.button \notin {"Left", "Right", "Middle"})
         => mouse_vars' = mouse_vars]_vars

C19_Witness ==
    /\ last_op.type = "MouseInput"
    /\ last_op.button = "Back"
    /\ last_op.state = "Released"
    /\ is_dragging
    /\ AnyButton(mouse_button_pressed)

\* C20: between two end_frame calls scroll_y is the vertical delta of the
\* most recent wheel event, whatever the earlier wheel events of the frame
\* were, and it is zero only if there was no wheel event in the frame or
\* the most recent one had a zero vertical delta.
C20_ScrollOverwritten ==
    /\ frame_wheel # <<>> => scroll_y = frame_wheel[1].v
    /\ scroll_y = 0 => (frame_wheel = <<>> \/ frame_wheel[1].v = 0)

C20_Witness ==
    /\ last_op.type = "MouseWheel"
    /\ frame_wheel # <<>>
    /\ frame_wheel[1].prior_nonzero
    /\ frame_wheel[1].v # 0
    /\ scroll_y = frame_wheel[1].v

\* ------------------------------------------- Application Handler claims

\* C12 as stated: the render that follows an idle hook still observes the
\* edges the frame had when the hook ran: the keys in keys_just_pressed and
\* keys_just_released and a non-zero scroll_y.
C12_RenderSeesFrameEdges ==
    [][(last_op'.type = "RedrawRequested" /\ idle_edges # <<>>)
         => /\ idle_edges[1].just_pressed \subseteq keys_just_pressed
            /\ idle_edges[1].just_released \subseteq keys_just_released
            /\ (idle_edges[1].scroll_y # 0
                  => scroll_y = idle_edges[1].scroll_y)]_vars

\* C13 as stated: after a render that failed with Lost or Outdated the
\* surface has been configured again with the current configuration, and
\* exit was not requested.
C13_RecoverableErrorReconfigures ==
    (last_op.type = "RedrawRequested"
        /\ last_op.result \in RecoverableErrors)
       => /\ configure_called
          /\ surface_config = <<state[1].config>>
          /\ ~exit_called

\* C14: a step calls exit() iff it handles a CloseRequested for the own
\* window or a render that returned OutOfMemory, and the loop is exiting
\* exactly from the first such step on; a render that returned Timeout,
\* Lost or Outdated calls no exit(), and one that returned Timeout leaves
\* the surface configuration alone.
C14_ExitOnlyOnCloseOrOutOfMemory ==
    /\ [][exit_called'
            <=> \/ last_op' = [type |-> "CloseRequested", window |-> "own"]
                \/ /\ last_op'.type = "RedrawRequested"
                   /\ last_op'.result = "OutOfMemory"]_vars
    /\ [][exiting' <=> (exiting \/ exit_called')]_vars
    /\ [][(last_op'.type = "RedrawRequested"
             /\ last_op'.result \in {"Timeout", "Lost", "Outdated"})
            => (~exit_called' /\ exiting' = exiting)]_vars
    /\ [][(last_op'.type = "RedrawRequested"
             /\ last_op'.result = "Timeout")
            => /\ state' = state
               /\ surface_config' = surface_config
               /\ ~configure_called']_vars

C14_Witness ==
    /\ exiting
    /\ exit_called
    /\ last_op.type = "RedrawRequested"
    /\ last_op.result = "OutOfMemory"
    /\ last_good_resize # <<>>

\* C15 as stated: once the surface exists its configured width and height
\* are >= 1, the surface carries that configuration, and after a resize
\* with both dimensions > 0 they are the dimensions of the latest such
\* resize; a resize with a zero dimension changes nothing and configures
\* nothing.
C15_ConfiguredDimensions ==
    /\ [](state # <<>>
            => /\ state[1].config.width >= 1
               /\ state[1].config.height >= 1
               /\ surface_config = <<state[1].config>>
               /\ last_good_resize # <<>>
                    => /\ state[1].config.width = last_good_resize[1].width
                       /\ state[1].config.height
                             = last_good_resize[1].height)
    /\ [][(ResizeArg(last_op') # <<>>
             /\ (ResizeArg(last_op')[1].width = 0
                   \/ ResizeArg(last_op')[1].height = 0))
            => /\ state' = state
               /\ surface_config' = surface_config
               /\ ~configure_called']_vars

\* C16: for every size s, resize(s) applied to the result of resize(s)
\* gives the surface state that one resize(s) gives.
C16_ResizeIdempotent ==
    state # <<>>
       => \A s \in Sizes :
             Resize(Resize(state[1], s), s) = Resize(state[1], s)

C16_Witness ==
    /\ last_op.type = "Resized"
    /\ last_op.size.width > 0
    /\ last_op.size.height > 0
    /\ state[1].size = last_op.size
    /\ \E s \in Sizes : Resize(state[1], s) # state[1]
    /\ Resize(state[1], last_op.size) = state[1]

\* C17: every step of an idle hook that was entered directly after another
\* idle hook had returned, so that end_frame runs twice on each latch with
\* no event in between, leaves the fields of the Key Latch and of the
\* Pointer Latch as they were.
C17_EndFrameIdempotent ==
    [][(last_op' = AboutToWaitOp
          /\ idle_edges' # <<>>
          /\ idle_edges'[1].after_idle)
         => (key_vars' = key_vars /\ mouse_vars' = mouse_vars)]_vars

C17_Witness ==
    /\ last_op = AboutToWaitOp
    /\ loop_pc = "idle"
    /\ idle_edges # <<>>
    /\ idle_edges[1].after_idle
    /\ keys_pressed # {}
    /\ x_pos # 0
    /\ last_x = x_pos
    /\ scroll_y = 0
    /\ keys_just_pressed = {}

====
